---------------------------- MODULE Spec2Model ----------------------------
(***************************************************************************)
(* Research portal: the usage tracker of rate_limit.py and the session,   *)
(* document aggregation and answer flow of app.py.                         *)
(*                                                                         *)
(* Four specifications share the variables below:                          *)
(*   SpecSeq   sequential calls of check_and_update_limit over a clock     *)
(*   SpecConc  two request handlers running check_and_update_limit with    *)
(*             their reads and writes of the shared dict interleaved       *)
(*   SpecApp   one browser session driving main() rerun by rerun           *)
(*   SpecAgg   load_client_data applied to bounded folder trees            *)
(***************************************************************************)
EXTENDS Integers, Sequences, FiniteSets, TLC

VARIABLES
    tracker,    \* rate_limit.py get_usage_tracker(): the shared dict, storage_key -> count
    clock,      \* position of datetime.now() on Timeline
    heavy,      \* the tenant whose calls are not budgeted in this behaviour
    attempts,   \* history: storage_key -> number of calls made on it
    last,       \* <<>> or <<r>>: arguments and return value of the last completed call
    pc,         \* SpecConc: handler -> position inside check_and_update_limit
    loc,        \* SpecConc: handler -> its local variables
    authenticated,  \* st.session_state.authenticated
    client_id,      \* st.session_state.client_id
    full_context,   \* st.session_state.full_context
    file_count,     \* st.session_state.file_count
    messages,       \* st.session_state.messages
    query_count,    \* st.session_state.query_count
    cand,       \* history: the candidate ids authenticate_client read on its last run
    loadlog,    \* history: the client ids load_client_data was called with, in order
    turn,       \* history: <<>> or <<r>>: the collaborators' fate and the outcome of
                \* the last question
    prompt,     \* history: <<>> or <<p>>: the last prompt sent to the model
    faults,     \* history: collaborator failures so far in this session
    drive,      \* remote storage: folder id -> its children, in listing order
    failing,    \* remote storage: ids of the files whose download raises
    service_ok, \* whether get_drive_service() returns a service
    agg_in,     \* SpecAgg: the client id load_client_data is applied to
    result      \* SpecAgg: <<>> or <<r>>: what load_client_data returned

rlVars == <<tracker, clock, heavy, attempts, last>>
concVars == <<pc, loc>>
sessVars == <<authenticated, client_id, full_context, file_count, messages, query_count>>
histVars == <<cand, loadlog, turn, prompt, faults>>
envVars == <<drive, failing, service_ok>>
aggVars == <<agg_in, result>>
appVars == <<sessVars, histVars, envVars, aggVars>>
vars == <<rlVars, concVars, appVars>>

-----------------------------------------------------------------------------
(* Bounds of the model *)

\* calls the tenants other than `heavy` may make in one behaviour, in total
MaxLight == 1
\* calls a tenant may make on one storage key after its limit is reached
MaxDenied == 1

\* the readings of datetime.now() a behaviour passes through, in order:
\* an hour change inside a day, then a day change
Timeline ==
    << [day |-> 0, hour |-> 0], [day |-> 0, hour |-> 1], [day |-> 1, hour |-> 0] >>

Clients == {"demo", "demo2", "alpha"}

\* the tenants that call beside h in one behaviour; beside alpha one tenant of
\* the demo class, demo and demo2 being handled alike
Guests(h) == IF h = "alpha" THEN {"demo"} ELSE Clients \ {h}

-----------------------------------------------------------------------------
(* rate_limit.py *)

DemoRateLimit == 30
DefaultRateLimit == 300

get_limit_config_demo15(cid) ==
    IF cid \in {"demo", "demo2"} THEN <<15, "hour">> ELSE <<DefaultRateLimit, "day">>

get_limit_config(cid) ==
    IF cid \in {"demo", "demo2"}
    THEN <<DemoRateLimit, "hour">>
    ELSE <<DefaultRateLimit, "day">>

\* now.strftime("%Y-%m-%d_%H") keeps the date and the hour, "%Y-%m-%d" the date
time_key_hour_only(period_type, t) ==
    IF period_type = "hour" THEN <<t.hour>> ELSE <<t.day>>

time_key(period_type, t) ==
    IF period_type = "hour" THEN <<t.day, t.hour>> ELSE <<t.day>>

\* f"{cid}_{time_key}"
storage_key(cid, t) ==
    <<cid, time_key(get_limit_config(cid)[2], t)>>

Now == Timeline[clock]

Count(trk, key) == IF key \in DOMAIN trk THEN trk[key] ELSE 0

\* the whole of check_and_update_limit run without interruption:
\* the dict after the call and the returned tuple
check_and_update_limit_gt(trk, cid, t) ==
    LET cfg == get_limit_config(cid)
        key == storage_key(cid, t)
        t1  == IF key \in DOMAIN trk THEN trk ELSE trk @@ (key :> 0)
    IN  IF t1[key] > cfg[1]
        THEN [tracker |-> t1, ret |-> <<FALSE, t1[key], cfg[1], cfg[2]>>]
        ELSE [tracker |-> [t1 EXCEPT ![key] = @ + 1],
              ret |-> <<TRUE, t1[key] + 1, cfg[1], cfg[2]>>]

check_and_update_limit(trk, cid, t) ==
    LET cfg == get_limit_config(cid)
        key == storage_key(cid, t)
        t1  == IF key \in DOMAIN trk THEN trk ELSE trk @@ (key :> 0)
    IN  IF t1[key] >= cfg[1]
        THEN [tracker |-> t1, ret |-> <<FALSE, t1[key], cfg[1], cfg[2]>>]
        ELSE [tracker |-> [t1 EXCEPT ![key] = @ + 1],
              ret |-> <<TRUE, t1[key] + 1, cfg[1], cfg[2]>>]

EmptyDict == [k \in {} |-> 0]

\* the calendar bucket a call of cid at reading t falls in, as the policy
\* states it: the clock hour for the demo class, the calendar day for the others
BucketOf(cid, t) ==
    <<cid, IF cid \in {"demo", "demo2"} THEN <<t.day, t.hour>> ELSE <<t.day>>>>

\* calls made so far by the tenants other than `heavy`, over all their buckets
OtherCalls ==
    LET keys == {k \in DOMAIN attempts : k[1] # heavy}
        RECURSIVE Sum(_)
        Sum(S) == IF S = {} THEN 0
                  ELSE LET k == CHOOSE x \in S : TRUE IN attempts[k] + Sum(S \ {k})
    IN  Sum(keys)

-----------------------------------------------------------------------------
(* app.py: remote storage and load_client_data *)

\* entries a folder may list directly in SpecAgg
MaxTop == 2
\* entries the nested folder may list in SpecAgg
MaxSub == 2

None == "None"

\* st.secrets["client_database"]: client id -> Drive folder id
CLIENT_DATABASE == ("demo" :> "folderD") @@ ("alpha" :> "folderA")

FolderMime == "application/vnd.google-apps.folder"
DocxMime == "application/vnd.openxmlformats-officedocument.wordprocessingml.document"
GDocMime == "application/vnd.google-apps.document"

supported_mimes == {"text/plain", "text/csv", DocxMime, GDocMime}

\* pageSize of the one files().list request a folder gets
PageSize == 1000

Min(a, b) == IF a <= b THEN a ELSE b

\* concatenation of f[lo] .. f[hi], each a sequence
RECURSIVE Cat(_, _, _)
Cat(f, lo, hi) ==
    IF lo > hi THEN <<>>
    ELSE IF lo = hi THEN f[lo]
    ELSE LET mid == (lo + hi) \div 2 IN Cat(f, lo, mid) \o Cat(f, mid + 1, hi)

\* service.files().list(q="'<folder_id>' in parents", pageSize=1000).execute()
\* .get('files', []): the first page of the folder's children; the request is
\* made once and no further page is asked for
files_list(drv, folder_id) ==
    IF folder_id \in DOMAIN drv
    THEN SubSeq(drv[folder_id], 1, Min(Len(drv[folder_id]), PageSize))
    ELSE <<>>

RECURSIVE list_files_in_folder(_, _)
list_files_in_folder(drv, folder_id) ==
    LET items == files_list(drv, folder_id)
        part  == [i \in 1..Len(items) |->
                    IF items[i].mimeType = FolderMime
                    THEN list_files_in_folder(drv, items[i].id)
                    ELSE <<items[i]>>]
    IN  Cat(part, 1, Len(items))

\* the text of a file, or the placeholder of the except branch
download_file_content(bad, file_id, mime_type) ==
    IF file_id \in bad
    THEN [kind |-> "[Error reading file: ", of |-> file_id]
    ELSE [kind |-> "text", of |-> file_id,
          via |-> IF mime_type = GDocMime THEN "export_media" ELSE "get_media",
          parse |-> IF mime_type = DocxMime THEN "docx" ELSE "utf-8"]

\* <<full_transcript_context, file_count>>; the context is the sequence of the
\* "=== FILE: <name> ===\n<content>\n" sections that "\n\n".join puts together
load_client_data(cid, drv, bad, svc) ==
    IF cid \notin DOMAIN CLIENT_DATABASE THEN << <<>>, 0 >>
    ELSE IF ~svc THEN << <<>>, 0 >>
    ELSE LET files == list_files_in_folder(drv, CLIENT_DATABASE[cid])
             relevant_files == SelectSeq(files, LAMBDA f : f.mimeType \in supported_mimes)
             combined_content ==
                 [i \in 1..Len(relevant_files) |->
                     [header |-> relevant_files[i].name,
                      content |-> download_file_content(bad, relevant_files[i].id,
                                                        relevant_files[i].mimeType)]]
         IN  <<combined_content, Len(relevant_files)>>

-----------------------------------------------------------------------------
(* app.py: answer generation, authentication and main *)

\* questions and answers a session may hold
MaxMessages == 32
\* collaborator failures (model initialisation, model call) in one session
MaxFaults == 2

DEMO_LIMIT == 15

ErrorMarker == "Error generating response: "

\* lines 255-263: the history block, the last message left out
history_text(chat_history) ==
    [i \in 1..(Len(chat_history) - 1) |->
        <<IF chat_history[i].role = "user" THEN "User" ELSE "Research Analyst",
          chat_history[i].content>>]

\* the model call raising out of generate_response
generate_response_raises(model_ok, context, user_query, chat_history) ==
    LET p == [context |-> context, history |-> history_text(chat_history),
              question |-> user_query]
    IN  IF model_ok
        THEN [raised |-> FALSE, text |-> <<"response.text">>, prompt |-> p]
        ELSE [raised |-> TRUE, text |-> <<>>, prompt |-> p]

\* the returned text, and the prompt that was built
generate_response(model_ok, context, user_query, chat_history) ==
    LET p == [context |-> context, history |-> history_text(chat_history),
              question |-> user_query]
    IN  IF model_ok
        THEN [raised |-> FALSE, text |-> <<"response.text">>, prompt |-> p]
        ELSE [raised |-> FALSE, text |-> <<ErrorMarker, "str(e)">>, prompt |-> p]

\* the id of the URL parameter if it is in the directory, else the id typed
\* in the Access ID field if it is in the directory, else None
authenticate_client_trusts_url(url, access_id) ==
    IF url # None /\ url # ""
    THEN url
    ELSE IF access_id # "" /\ access_id \in DOMAIN CLIENT_DATABASE
         THEN access_id
         ELSE None

authenticate_client(url, access_id) ==
    IF url # None /\ url # "" /\ url \in DOMAIN CLIENT_DATABASE
    THEN url
    ELSE IF access_id # "" /\ access_id \in DOMAIN CLIENT_DATABASE
         THEN access_id
         ELSE None

\* what authenticate_client read: the URL parameter, and the Access ID field
\* when the URL parameter did not resolve
Candidates(url, access_id) ==
    IF url # None /\ url # "" /\ url \in DOMAIN CLIENT_DATABASE
    THEN <<url>>
    ELSE <<url, access_id>>

\* line 355: if not st.session_state.authenticated
needs_authentication_always(auth) == TRUE

needs_authentication(auth) == ~auth

\* lines 338-352: the defaults of a new session
InitSession ==
    /\ authenticated = FALSE
    /\ client_id = None
    /\ full_context = <<>>
    /\ file_count = 0
    /\ messages = <<>>
    /\ query_count = 0

InitHistory ==
    /\ cand = <<>>
    /\ loadlog = <<>>
    /\ turn = <<>>
    /\ prompt = <<>>
    /\ faults = 0

InitAggIdle ==
    /\ agg_in = None
    /\ result = <<>>

InitAppIdle ==
    /\ InitSession
    /\ InitHistory
    /\ InitAggIdle
    /\ drive = <<>>
    /\ failing = {}
    /\ service_ok = TRUE

-----------------------------------------------------------------------------
(* SpecSeq: sequential calls *)

Handlers == {1, 2}

InitRL ==
    /\ tracker = EmptyDict
    /\ clock = 1
    /\ heavy \in Clients
    /\ attempts = EmptyDict
    /\ last = <<>>

InitConcIdle ==
    /\ pc = [h \in Handlers |-> "idle"]
    /\ loc = [h \in Handlers |-> <<>>]

InitSeq == InitRL /\ InitConcIdle /\ InitAppIdle

\* one request: check_and_update_limit(cid) from entry to return
Call(cid) ==
    LET b == BucketOf(cid, Now)
        r == check_and_update_limit(tracker, cid, Now)
    IN  /\ cid = heavy \/ (cid \in Guests(heavy) /\ OtherCalls < MaxLight)
        /\ Count(attempts, b) < get_limit_config(cid)[1] + MaxDenied
        /\ tracker' = r.tracker
        /\ last' = << [client_id |-> cid, at |-> Now, ret |-> r.ret] >>
        /\ attempts' = IF b \in DOMAIN attempts
                       THEN [attempts EXCEPT ![b] = @ + 1]
                       ELSE attempts @@ (b :> 1)
        /\ UNCHANGED <<clock, heavy, concVars, appVars>>

\* the wall clock reaches the next reading
Tick ==
    /\ clock < Len(Timeline)
    /\ clock' = clock + 1
    /\ UNCHANGED <<tracker, heavy, attempts, last, concVars, appVars>>

NextSeq ==
    \/ \E c \in Clients : Call(c)
    \/ Tick

SpecSeq == InitSeq /\ [][NextSeq]_vars

-----------------------------------------------------------------------------
(* SpecConc: two handlers inside check_and_update_limit at once.  Each step  *)
(* is one read or one write of the shared dict; the steps of the two        *)
(* handlers interleave in any order.                                        *)

\* the dict as sequential calls of `heavy` in the current bucket leave it:
\* empty, or the bucket's key at a count from 1 to the limit
InitConc ==
    /\ clock = 1
    /\ heavy \in Clients
    /\ tracker \in {EmptyDict} \cup
           { (storage_key(heavy, Now) :> n) : n \in 1..get_limit_config(heavy)[1] }
    /\ attempts = EmptyDict
    /\ last = <<>>
    /\ InitConcIdle
    /\ InitAppIdle

\* lines 27-43: a handler enters the call and computes its locals
Begin(h) ==
    /\ pc[h] = "idle"
    /\ LET cfg == get_limit_config(heavy)
           key == storage_key(heavy, Now)
       IN  loc' = [loc EXCEPT ![h] =
                     [client_id |-> heavy, limit |-> cfg[1], period_type |-> cfg[2],
                      storage_key |-> key, seen |-> Count(tracker, key),
                      tmp |-> 0, ret |-> <<>>]]
    /\ pc' = [pc EXCEPT ![h] = "L46"]
    /\ UNCHANGED <<rlVars, appVars>>

\* line 46: if storage_key not in tracker
L46(h) ==
    /\ pc[h] = "L46"
    /\ pc' = [pc EXCEPT ![h] =
                IF loc[h].storage_key \notin DOMAIN tracker THEN "L47" ELSE "L50"]
    /\ UNCHANGED <<rlVars, loc, appVars>>

\* line 47: tracker[storage_key] = 0
L47(h) ==
    /\ pc[h] = "L47"
    /\ tracker' = IF loc[h].storage_key \in DOMAIN tracker
                  THEN [tracker EXCEPT ![loc[h].storage_key] = 0]
                  ELSE tracker @@ (loc[h].storage_key :> 0)
    /\ pc' = [pc EXCEPT ![h] = "L50"]
    /\ UNCHANGED <<clock, heavy, attempts, last, loc, appVars>>

\* line 50: if tracker[storage_key] >= limit
L50(h) ==
    /\ pc[h] = "L50"
    /\ pc' = [pc EXCEPT ![h] =
                IF tracker[loc[h].storage_key] >= loc[h].limit THEN "L51" ELSE "L54"]
    /\ UNCHANGED <<rlVars, loc, appVars>>

\* line 51: return False, tracker[storage_key], limit, period_type
L51(h) ==
    /\ pc[h] = "L51"
    /\ loc' = [loc EXCEPT ![h].ret =
                 <<FALSE, tracker[loc[h].storage_key], loc[h].limit, loc[h].period_type>>]
    /\ pc' = [pc EXCEPT ![h] = "done"]
    /\ UNCHANGED <<rlVars, appVars>>

\* line 54, first half: the read of tracker[storage_key] += 1
L54(h) ==
    /\ pc[h] = "L54"
    /\ loc' = [loc EXCEPT ![h].tmp = tracker[loc[h].storage_key]]
    /\ pc' = [pc EXCEPT ![h] = "L54w"]
    /\ UNCHANGED <<rlVars, appVars>>

\* line 54, second half: the write of tracker[storage_key] += 1
L54w(h) ==
    /\ pc[h] = "L54w"
    /\ tracker' = [tracker EXCEPT ![loc[h].storage_key] = loc[h].tmp + 1]
    /\ pc' = [pc EXCEPT ![h] = "L55"]
    /\ UNCHANGED <<clock, heavy, attempts, last, loc, appVars>>

\* line 55: return True, tracker[storage_key], limit, period_type
L55(h) ==
    /\ pc[h] = "L55"
    /\ loc' = [loc EXCEPT ![h].ret =
                 <<TRUE, tracker[loc[h].storage_key], loc[h].limit, loc[h].period_type>>]
    /\ pc' = [pc EXCEPT ![h] = "done"]
    /\ UNCHANGED <<rlVars, appVars>>

NextConc ==
    \E h \in Handlers :
        \/ Begin(h)
        \/ L46(h)
        \/ L47(h)
        \/ L50(h)
        \/ L51(h)
        \/ L54(h)
        \/ L54w(h)
        \/ L55(h)

SpecConc == InitConc /\ [][NextConc]_vars

-----------------------------------------------------------------------------
(* Remote storage contents used by SpecApp and SpecAgg *)

File(i) ==
    [id |-> i,
     name |-> <<"a.txt", "b.csv", "c.docx", "d", "e.png">>[i],
     mimeType |-> <<"text/plain", "text/csv", DocxMime, GDocMime, "image/png">>[i]]

FileIds == 1..5

SubFolder == [id |-> "sub", name |-> "sub", mimeType |-> FolderMime]

\* sequences over S of length at most n in which nothing repeats
InjSeqs(S, n) ==
    {q \in UNION {[1..k -> S] : k \in 0..n} :
        \A i, j \in DOMAIN q : i # j => q[i] # q[j]}

\* the folder `root` holding at most MaxTop entries, one of which may be a
\* nested folder of at most MaxSub files; no file occurs twice
SmallDrives(root) ==
    LET tops == InjSeqs({File(i) : i \in FileIds} \cup {SubFolder}, MaxTop)
    IN  UNION { IF \E i \in DOMAIN top : top[i] = SubFolder
                THEN { (root :> top) @@ ("sub" :> sub) :
                         sub \in InjSeqs({File(i) : i \in FileIds} \
                                            {top[i] : i \in DOMAIN top}, MaxSub) }
                ELSE { (root :> top) }
              : top \in tops }

\* one folder listing one more file than a page holds
BigDrive(root) ==
    (root :> [i \in 1..(PageSize + 1) |->
                [id |-> 100 + i, name |-> "t.txt", mimeType |-> "text/plain"]])

AppDrives ==
    { ("folderD" :> <<File(1)>>) @@ ("folderA" :> <<File(2)>>),
      ("folderD" :> <<File(1), SubFolder>>) @@ ("folderA" :> <<File(5), SubFolder, File(2)>>)
         @@ ("sub" :> <<File(3)>>) }

Ids == {"demo", "alpha", "bogus"}

-----------------------------------------------------------------------------
(* SpecApp: one session of main() *)

InitApp ==
    /\ tracker = EmptyDict
    /\ clock = 1
    /\ heavy = "demo"
    /\ attempts = EmptyDict
    /\ last = <<>>
    /\ InitConcIdle
    /\ InitSession
    /\ InitHistory
    /\ InitAggIdle
    /\ drive \in AppDrives
    /\ failing \in {{}, {3}}
    /\ service_ok = TRUE

\* a script run of a session that is not authenticated (lines 354-369):
\* authenticate_client, then either the login with load_client_data and
\* st.rerun(), or st.stop()
RunUnauthenticated(url, access_id) ==
    /\ needs_authentication(authenticated)
    /\ cand' = Candidates(url, access_id)
    /\ LET id == authenticate_client(url, access_id)
           r  == load_client_data(id, drive, failing, service_ok)
       IN  IF id # None
           THEN /\ client_id' = id
                /\ authenticated' = TRUE
                /\ full_context' = r[1]
                /\ file_count' = r[2]
                /\ loadlog' = Append(loadlog, id)
           ELSE UNCHANGED <<client_id, authenticated, full_context, file_count, loadlog>>
    /\ UNCHANGED <<messages, query_count, turn, prompt, faults>>
    /\ UNCHANGED <<rlVars, concVars, envVars, aggVars>>

\* a script run of an authenticated session with no question submitted
\* (lines 372-420 render the page)
RunIdle ==
    /\ ~needs_authentication(authenticated)
    /\ UNCHANGED vars

\* a script run with a question submitted (lines 420-464)
Question(q, genai_ok, model_ok) ==
    /\ ~needs_authentication(authenticated)
    /\ Len(messages) + 2 <= MaxMessages
    /\ LET msgs1 == Append(messages, [role |-> "user", content |-> <<q>>])
           is_demo_user == (client_id = "demo")
           limit_reached == is_demo_user /\ query_count >= DEMO_LIMIT
           r == generate_response(model_ok, full_context, q, msgs1)
       IN  IF limit_reached
           THEN /\ messages' = msgs1
                /\ turn' = << [genai |-> "unused", model |-> "unused",
                               outcome |-> "limit_reached"] >>
                /\ UNCHANGED <<query_count, prompt, faults>>
           ELSE IF ~genai_ok
           THEN /\ faults < MaxFaults
                /\ faults' = faults + 1
                /\ messages' = msgs1
                /\ turn' = << [genai |-> "fail", model |-> "unused",
                               outcome |-> "init_failed"] >>
                /\ UNCHANGED <<query_count, prompt>>
           ELSE /\ model_ok \/ faults < MaxFaults
                /\ faults' = IF model_ok THEN faults ELSE faults + 1
                /\ prompt' = <<r.prompt>>
                /\ IF r.raised
                   THEN /\ messages' = msgs1
                        /\ turn' = << [genai |-> "ok",
                                       model |-> IF model_ok THEN "ok" ELSE "fail",
                                       outcome |-> "raised"] >>
                        /\ UNCHANGED query_count
                   ELSE /\ messages' = Append(msgs1, [role |-> "assistant",
                                                      content |-> r.text])
                        /\ query_count' = query_count + 1
                        /\ turn' = << [genai |-> "ok",
                                       model |-> IF model_ok THEN "ok" ELSE "fail",
                                       outcome |-> "answered"] >>
    /\ UNCHANGED <<authenticated, client_id, full_context, file_count, cand, loadlog>>
    /\ UNCHANGED <<rlVars, concVars, envVars, aggVars>>

\* the tenant's folder changes on the remote storage
DriveChanges ==
    /\ drive' \in AppDrives \ {drive}
    /\ UNCHANGED <<failing, service_ok>>
    /\ UNCHANGED <<rlVars, concVars, sessVars, histVars, aggVars>>

NextApp ==
    \/ \E url \in Ids \cup {None}, access_id \in Ids \cup {""} :
          RunUnauthenticated(url, access_id)
    \/ RunIdle
    \/ \E genai_ok \in BOOLEAN, model_ok \in BOOLEAN : Question("q", genai_ok, model_ok)
    \/ DriveChanges

SpecApp == InitApp /\ [][NextApp]_vars

-----------------------------------------------------------------------------
(* SpecAgg: load_client_data applied once to a folder tree *)

InitAgg ==
    /\ tracker = EmptyDict
    /\ clock = 1
    /\ heavy = "demo"
    /\ attempts = EmptyDict
    /\ last = <<>>
    /\ InitConcIdle
    /\ InitSession
    /\ InitHistory
    /\ agg_in \in Ids
    /\ result = <<>>
    /\ drive \in SmallDrives("folderA") \cup {BigDrive("folderA")}
    /\ failing \in SUBSET {1, 2, 3, 4}
    /\ service_ok \in BOOLEAN

Load ==
    /\ result = <<>>
    /\ result' = << load_client_data(agg_in, drive, failing, service_ok) >>
    /\ UNCHANGED <<agg_in, rlVars, concVars, sessVars, histVars, envVars>>

NextAgg == Load

SpecAgg == InitAgg /\ [][NextAgg]_vars

-----------------------------------------------------------------------------
(* Claims about the usage tracker *)

\* the policy as the claims state it
PolicyLimit(cid) == IF cid \in {"demo", "demo2"} THEN 30 ELSE 300
PolicyPeriod(cid) == IF cid \in {"demo", "demo2"} THEN "hour" ELSE "day"

\* C1: two handlers that both entered check_and_update_limit for the same
\* tenant and bucket while the counter was limit - 1 never both return
\* admitted: exactly one of them is admitted.
C1_ExactlyOneAdmitted ==
    ( /\ pc[1] = "done" /\ pc[2] = "done"
      /\ loc[1].storage_key = loc[2].storage_key
      /\ loc[1].seen = PolicyLimit(heavy) - 1
      /\ loc[2].seen = PolicyLimit(heavy) - 1 )
    => (loc[1].ret[1] # loc[2].ret[1])

\* C3: counting the calls of a tenant in one bucket from an empty tracker,
\* call n <= L returns (admitted, n, L, period) and every later call returns
\* (denied, L, L, period), with L = 30 per hour for the demo class and
\* L = 300 per day for every other tenant.
C3_LimitThenDenied ==
    \A i \in DOMAIN last :
        LET r == last[i]
            n == attempts[BucketOf(r.client_id, r.at)]
            L == PolicyLimit(r.client_id)
            P == PolicyPeriod(r.client_id)
        IN  /\ n <= L => r.ret = <<TRUE, n, L, P>>
            /\ n > L => r.ret = <<FALSE, L, L, P>>

C3_Witness ==
    /\ last # <<>>
    /\ last[1].client_id = "alpha"
    /\ attempts[BucketOf("alpha", last[1].at)] = 301
    /\ last[1].ret = <<FALSE, 300, 300, "day">>

\* C4: every counter stays between 0 and its tenant's policy limit and never
\* decreases; a call adds exactly 1 to the counter of its own tenant and
\* bucket when it returns admitted and leaves it unchanged when it returns
\* denied.
C4_CounterStep ==
    [][ /\ \A k \in DOMAIN tracker :
              k \in DOMAIN tracker' /\ tracker'[k] >= tracker[k]
        /\ \A k \in DOMAIN tracker' :
              tracker'[k] >= 0 /\ tracker'[k] <= PolicyLimit(k[1])
        /\ attempts' # attempts =>
              LET r == last'[1]
                  k == storage_key(r.client_id, r.at)
              IN  Count(tracker', k) = Count(tracker, k) + (IF r.ret[1] THEN 1 ELSE 0)
      ]_vars

C4_Witness ==
    /\ last # <<>>
    /\ last[1].client_id = "demo"
    /\ last[1].ret[1] = FALSE
    /\ tracker[storage_key("demo", last[1].at)] = 30
    /\ \E k \in DOMAIN tracker : k[1] # "demo" /\ tracker[k] = 1

\* C5: the first call of a tenant in a new bucket (a new hour for the demo
\* class, a new day for the others) is admitted with current_count = 1,
\* whatever the tenant's count in earlier buckets; the entries of the earlier
\* buckets stay in the tracker with their values.
C5_BucketRollover ==
    /\ \A i \in DOMAIN last :
          LET r == last[i]
          IN  attempts[BucketOf(r.client_id, r.at)] = 1 =>
                 (r.ret[1] = TRUE /\ r.ret[2] = 1)
    /\ \A b \in DOMAIN attempts :
          LET t == [day |-> b[2][1], hour |-> IF Len(b[2]) = 2 THEN b[2][2] ELSE 0]
              k == storage_key(b[1], t)
              L == PolicyLimit(b[1])
          IN  /\ k \in DOMAIN tracker
              /\ tracker[k] = IF attempts[b] <= L THEN attempts[b] ELSE L

C5_Witness ==
    /\ clock = 3
    /\ last # <<>>
    /\ last[1].client_id = "alpha"
    /\ last[1].at = Timeline[3]
    /\ last[1].ret = <<TRUE, 1, 300, "day">>
    /\ Count(tracker, storage_key("alpha", Timeline[1])) = 300

-----------------------------------------------------------------------------
(* Claims about the session, the aggregator and the answer generator *)

IsAssistant(m) == m.role = "assistant"

\* admissions the tracker holds for a tenant, over all its buckets
RECURSIVE SumCounts(_, _)
SumCounts(trk, keys) ==
    IF keys = {} THEN 0
    ELSE LET k == CHOOSE x \in keys : TRUE IN trk[k] + SumCounts(trk, keys \ {k})

AdmittedFor(cid) == SumCounts(tracker, {k \in DOMAIN tracker : k[1] = cid})

\* C2: every answer generated in a Ready session was preceded by an admission
\* of the session's tenant by the usage tracker: the session never holds more
\* answers than the tracker has admitted requests for its tenant.
C2_AnswerOnlyIfAdmitted ==
    Len(SelectSeq(messages, IsAssistant)) <= AdmittedFor(client_id)

\* C6: an id that is not in the tenant directory never reaches
\* load_client_data and never authenticates the session: while every
\* candidate read so far is unknown, authenticated is false and client_id
\* is unset.
C6_UnknownIdRejected ==
    /\ \A i \in DOMAIN loadlog : loadlog[i] \in {"demo", "alpha"}
    /\ authenticated => client_id \in {"demo", "alpha"}
    /\ (\A i \in DOMAIN cand : cand[i] \notin {"demo", "alpha"}) =>
          (~authenticated /\ client_id = None /\ loadlog = <<>>)

C6_Witness ==
    /\ cand = <<"bogus", "bogus">>
    /\ ~authenticated
    /\ loadlog = <<>>

\* C7: load_client_data runs exactly once per session, at the transition to
\* Ready; from then on no script run calls it again and full_context and
\* file_count keep their values.
C7_AggregatedOnce ==
    /\ [](Len(loadlog) = IF authenticated THEN 1 ELSE 0)
    /\ [][authenticated =>
            /\ authenticated'
            /\ loadlog' = loadlog
            /\ full_context' = full_context
            /\ file_count' = file_count]_vars

C7_Witness ==
    /\ authenticated
    /\ Len(loadlog) = 1
    /\ Len(messages) >= 3
    /\ \E i \in DOMAIN turn : turn[i].outcome = "init_failed"
    /\ full_context # load_client_data(client_id, drive, failing, service_ok)[1]

\* every file under a folder, depth first in listing order, however many
\* entries a folder holds
RECURSIVE EveryFile(_, _)
EveryFile(drv, folder_id) ==
    LET items == IF folder_id \in DOMAIN drv THEN drv[folder_id] ELSE <<>>
        part  == [i \in 1..Len(items) |->
                    IF items[i].mimeType = FolderMime
                    THEN EveryFile(drv, items[i].id)
                    ELSE <<items[i]>>]
    IN  Cat(part, 1, Len(items))

IsEligible(f) ==
    f.mimeType \in {"text/plain", "text/csv",
                    "application/vnd.openxmlformats-officedocument.wordprocessingml.document",
                    "application/vnd.google-apps.document"}

\* C8: whatever files fail to download, load_client_data returns, for a known
\* tenant, file_count = the number of files of a supported type anywhere in
\* the tree and one section per such file, in depth-first listing order, a
\* failed file's section holding the error placeholder.
C8_EveryEligibleFile ==
    \A i \in DOMAIN result :
        (service_ok /\ agg_in \in DOMAIN CLIENT_DATABASE) =>
            LET eligible == SelectSeq(EveryFile(drive, CLIENT_DATABASE[agg_in]), IsEligible)
                ctx == result[i][1]
            IN  /\ result[i][2] = Len(eligible)
                /\ Len(ctx) = Len(eligible)
                /\ \A j \in DOMAIN ctx :
                      /\ j <= Len(eligible)
                      /\ ctx[j].header = eligible[j].name
                      /\ ctx[j].content.of = eligible[j].id
                      /\ (eligible[j].id \in failing) <=>
                            (ctx[j].content.kind = "[Error reading file: ")

\* C9: when the model collaborator fails inside generate_response, the call
\* returns a string that starts with the error marker, the session stays
\* Ready and that string is the assistant turn appended after the question.
C9_ModelFailureAnswered ==
    \A i \in DOMAIN turn :
        turn[i].model = "fail" =>
            /\ turn[i].outcome = "answered"
            /\ authenticated
            /\ Len(messages) >= 2
            /\ messages[Len(messages) - 1].role = "user"
            /\ messages[Len(messages)].role = "assistant"
            /\ messages[Len(messages)].content[1] = "Error generating response: "

C9_Witness ==
    /\ turn # <<>>
    /\ turn[1].model = "fail"
    /\ authenticated
    /\ messages[Len(messages)].content[1] = "Error generating response: "
    /\ query_count >= 2

\* C10: between questions the conversation alternates user, assistant, user,
\* assistant, ... from a user turn, every question's user turn having its
\* assistant turn, and the history block of every prompt alternates "User"
\* and "Research Analyst" lines.
C10_HistoryAlternates ==
    /\ Len(messages) % 2 = 0
    /\ \A i \in DOMAIN messages :
          messages[i].role = IF i % 2 = 1 THEN "user" ELSE "assistant"
    /\ \A p \in DOMAIN prompt :
          \A i \in DOMAIN prompt[p].history :
              prompt[p].history[i][1] = IF i % 2 = 1 THEN "User" ELSE "Research Analyst"

=============================================================================
